---- MODULE Spec2Model ----
(***************************************************************************)
(* Model of src/index.js: a WhatsApp bot that answers each inbound message *)
(* either with a literal command reply, a rejection, a cached response or  *)
(* the text returned by the Gemini backend.                                *)
(*                                                                         *)
(* The process is single threaded: every action below is one run of the    *)
(* event loop between two awaits of one message handler (or one timer      *)
(* callback).  Handlers of different messages interleave at the awaits.    *)
(*                                                                         *)
(* Texts are kept run-length encoded: a text is a sequence of runs         *)
(* [ch, n] (n copies of the character ch) in which neighbouring runs have  *)
(* different characters and every n is positive.  The string operations    *)
(* of the source (length, trim, toLowerCase, substring, +) are defined on  *)
(* that representation.                                                    *)
(***************************************************************************)
EXTENDS Integers, Sequences, FiniteSets, TLC

VARIABLES
    conversationHistory,  \* chatId -> sequence of turns   (index.js:60)
    responseCache,        \* cacheKey -> [response, timestamp] (index.js:27)
    requestCount,         \* index.js:29
    startTime,            \* index.js:30
    now,                  \* the value Date.now() returns
    handlers,             \* one record per received message, in arrival order
    inbound,              \* the 'message' event the last step handled, if any
    delivered             \* the replies handed to msg.reply by the last step

vars == <<conversationHistory, responseCache, requestCount, startTime, now,
          handlers, inbound, delivered>>

-----------------------------------------------------------------------------
(* Program constants *)

maxHistory == 4

CACHE_DURATION == 5 * 60 * 1000

MaxMessageLength == 500

DailyQuota == 1000

ReplyCap == 4000

(* Bounds of the model: the number of 'message' events of a run, in mixed *)
(* traffic and in a conversation of one chat                             *)

MaxMessages == 2

MaxConversation == 3

-----------------------------------------------------------------------------
(* Texts *)

Run(c, k) == [ch |-> c, n |-> k]

\* The one element of a singleton; the operators below bind their argument
\* with it, so that the argument is evaluated once
The(S) == CHOOSE x \in S : TRUE

\* The run r put before the normal text rest
Cons(r, rest) ==
    IF r.n = 0 THEN rest
    ELSE IF rest # <<>> /\ Head(rest).ch = r.ch
       THEN <<Run(r.ch, r.n + Head(rest).n)>> \o Tail(rest)
       ELSE <<r>> \o rest

RECURSIVE Norm(_)
Norm(s) ==
    The({IF x = <<>> THEN <<>>
         ELSE The({Cons(Head(x), rest) : rest \in {Norm(Tail(x))}}) : x \in {s}})

Lit(chars) == Norm([i \in DOMAIN chars |-> Run(chars[i], 1)])

Concat(a, b) == Norm(a \o b)

RECURSIVE Length(_)
Length(s) == IF s = <<>> THEN 0 ELSE Head(s).n + Length(Tail(s))

\* s.substring(0, k)
RECURSIVE Substring(_, _)
Substring(s, k) ==
    IF k <= 0 \/ s = <<>> THEN <<>>
    ELSE IF Head(s).n <= k
         THEN <<Head(s)>> \o Substring(Tail(s), k - Head(s).n)
         ELSE <<Run(Head(s).ch, k)>>

IsSpace(c) == c = " "

TrimStart(s) == IF s # <<>> /\ IsSpace(Head(s).ch) THEN Tail(s) ELSE s

TrimEnd(s) ==
    IF s # <<>> /\ IsSpace(s[Len(s)].ch) THEN SubSeq(s, 1, Len(s) - 1) ELSE s

Trim(s) == The({TrimEnd(TrimStart(x)) : x \in {s}})

\* The upper-case letters of the texts used here
Lower(c) == CASE c = "E" -> "e"
              [] c = "T" -> "t"
              [] c = "X" -> "x"
              [] OTHER   -> c

ToLowerCase(s) ==
    The({Norm([i \in DOMAIN x |-> Run(Lower(x[i].ch), x[i].n)]) : x \in {s}})

-----------------------------------------------------------------------------
(* Literal texts of the source *)

PingCommand  == Lit(<<"!", "p", "i", "n", "g">>)
ResetCommand == Lit(<<"!", "r", "e", "s", "e", "t">>)
HelpCommand  == Lit(<<"!", "h", "e", "l", "p">>)
StatsCommand == Lit(<<"!", "s", "t", "a", "t", "s">>)

Ellipsis == <<Run(".", 3)>>

\* The two fallback texts of askGemini, abbreviated to their first word.
TooManyRequestsText == Lit(<<"T", "r", "o", "p">>)
TemporaryErrorText  == Lit(<<"E", "r", "r", "e", "u", "r">>)

-----------------------------------------------------------------------------
(* Replies handed to msg.reply *)

FixedReply(k) == [kind |-> k, text |-> <<>>, requests |-> 0, tenths |-> 0]

PongReply     == FixedReply("pong")
ResetReply    == FixedReply("reset")
HelpReply     == FixedReply("help")
TooLongReply  == FixedReply("tooLong")
QuotaReply    == FixedReply("quota")
ThinkingReply == FixedReply("thinking")

\* ((Date.now() - startTime) / 3600000).toFixed(1), in tenths of an hour
UptimeTenths(t) == ((t - startTime) + 180000) \div 360000

StatsReply ==
    [kind |-> "stats", text |-> <<>>, requests |-> requestCount,
     tenths |-> UptimeTenths(now)]

TextReply(s) == [kind |-> "text", text |-> s, requests |-> 0, tenths |-> 0]

-----------------------------------------------------------------------------
(* Inputs *)

Chats == {"c1", "c2"}

\* Two conversational texts of exactly MaxMessageLength characters once
\* trimmed, which differ in case only, and one that is a character longer.
Question      == <<Run("X", 1), Run("x", MaxMessageLength - 1)>>
QuestionAgain == <<Run("x", MaxMessageLength), Run(" ", 1)>>
OverLimit     == <<Run("x", MaxMessageLength + 1)>>

\* The 'message' events: chat c1 sends every kind of message, chat c2 a
\* conversational text, and the bot's own account (fromMe) a command.
Message(chatId, body, me) == [from |-> chatId, body |-> body, fromMe |-> me]

Inbound ==
    {Message("c1", b, FALSE) :
        b \in {PingCommand, Concat(<<Run(" ", 1)>>, ResetCommand), HelpCommand,
               StatsCommand, Question, QuestionAgain, OverLimit}}
    \cup {Message("c2", Question, FALSE)}
    \cup {Message("c1", ResetCommand, TRUE)}

Conversation == {Message("c1", Question, FALSE)}

\* What the backend may answer: a text of exactly ReplyCap characters and a
\* longer one.
Responses == {<<Run("a", ReplyCap)>>, <<Run("a", ReplyCap + 500)>>}

\* err.status of a failed backend call
FailureStatuses == {429, 500}

\* Values of Date.now(), relative to the first one observed.  At the last
\* one an entry stored at the first is older than CACHE_DURATION and an entry
\* stored at the second is exactly CACHE_DURATION old.
Instants == {0, 1, CACHE_DURATION + 1}

\* requestCount when the observation starts: a fresh counter, or one that
\* earlier traffic of other chats has brought to the quota.
InitialRequestCounts == {0, DailyQuota}

-----------------------------------------------------------------------------
(* Pure parts of the handlers *)

Turn(r, t) == [role |-> r, text |-> t]

\* The key without the case folding
CacheKeyRaw(chatId, userMessage) == <<chatId, Trim(userMessage)>>

\* index.js:64
CacheKey(chatId, userMessage) == <<chatId, Trim(ToLowerCase(userMessage))>>

\* An entry of exactly CACHE_DURATION still counts as valid
FreshInclusive(entry) == now - entry.timestamp <= CACHE_DURATION

\* index.js:66, second conjunct
Fresh(entry) == now - entry.timestamp < CACHE_DURATION

\* index.js:65: responseCache.get(key), as the set of the entries found
Get(key) ==
    IF key \in DOMAIN responseCache THEN {responseCache[key]} ELSE {}

\* index.js:66: the condition of the cache hit
Hit(cached) == \E e \in cached : Fresh(e)

\* index.js:79-81
TrimHistory(h) ==
    IF Len(h) > maxHistory THEN SubSeq(h, Len(h) - maxHistory + 1, Len(h))
                           ELSE h

\* The user turn pushed and the history left untrimmed
AppendUserUntrimmed(h, t) == Append(h, Turn("user", t))

\* index.js:70-81
AppendUser(h, t) == TrimHistory(Append(h, Turn("user", t)))

\* index.js:103-106
AppendModel(h, t) == Append(h, Turn("model", t))

\* The answer not stored
StoreSkipped(cache, key, text) == cache

\* index.js:108-111
Store(cache, key, text) ==
    [k \in DOMAIN cache \cup {key} |->
        IF k = key THEN [response |-> text, timestamp |-> now] ELSE cache[k]]

\* The increment placed above the cache check
CountedAlways(count, hit) == count + 1

\* index.js:66-68, 96: requestCount after askGemini has run to its return or
\* to the backend call
Counted(count, hit) == IF hit THEN count ELSE count + 1

\* The status of the failure ignored
FallbackGeneric(status) == TemporaryErrorText

\* index.js:118-121
Fallback(status) ==
    IF status = 429 THEN TooManyRequestsText ELSE TemporaryErrorText

\* A text of exactly MaxMessageLength characters rejected too
TooLongInclusive(text) == Length(text) >= MaxMessageLength

\* index.js:149
TooLong(text) == Length(text) > MaxMessageLength

\* The quota check off by one
OverQuotaLate == requestCount > DailyQuota + 1

\* index.js:153
OverQuota == requestCount > DailyQuota

\* A response of exactly ReplyCap characters cut too
TruncateInclusive(aiResponse) ==
    IF Length(aiResponse) >= ReplyCap
       THEN Concat(Substring(aiResponse, ReplyCap), Ellipsis)
       ELSE aiResponse

\* index.js:161-163
Truncate(aiResponse) ==
    IF Length(aiResponse) > ReplyCap
       THEN Concat(Substring(aiResponse, ReplyCap), Ellipsis)
       ELSE aiResponse

\* The test of the sweep turned round
ExpiredInverted(entry) == now - entry.timestamp < CACHE_DURATION

\* index.js:174
Expired(entry) == now - entry.timestamp > CACHE_DURATION

\* !stats left out of the dispatch
IsCommandWithoutStats(text) ==
    text \in {PingCommand, ResetCommand, HelpCommand}

\* index.js:132-143: text is one of the literal commands
IsCommand(text) ==
    text \in {PingCommand, ResetCommand, HelpCommand, StatsCommand}

\* index.js:132-146: the reply to a command
CommandReply(text) ==
    CASE text = PingCommand  -> PongReply
      [] text = ResetCommand -> ResetReply
      [] text = HelpCommand  -> HelpReply
      [] text = StatsCommand -> StatsReply

\* Every session emptied instead of the sender's
ResetEverySession(hist, chatId) == [c \in DOMAIN hist \cup {chatId} |-> <<>>]

\* index.js:134
ResetHistory(hist, chatId) ==
    [c \in DOMAIN hist \cup {chatId} |-> IF c = chatId THEN <<>> ELSE hist[c]]

HistoryOf(chatId) ==
    IF chatId \in DOMAIN conversationHistory
       THEN conversationHistory[chatId] ELSE <<>>

SetHistory(chatId, h) ==
    [c \in DOMAIN conversationHistory \cup {chatId} |->
        IF c = chatId THEN h ELSE conversationHistory[c]]

-----------------------------------------------------------------------------
(* Message handlers *)

\* The handler of a message that has returned.  Nothing of it is kept: its
\* record only holds the message's place in the order of arrival.
Finished ==
    [from |-> "", fromMe |-> FALSE, body |-> <<>>, pc |-> "done",
     cached |-> {}, errStatus |-> 0, aiResponse |-> <<>>, replies |-> <<>>,
     calls |-> 0]

NewHandler(chatId, body, me) ==
    [Finished EXCEPT !.from = chatId, !.fromMe = me, !.body = body]

Text(h) == Trim(h.body)

\* msg.reply(reply) for the message of chat chatId
Delivery(chatId, reply) == [to |-> chatId, reply |-> reply]

Init ==
    /\ conversationHistory = <<>>
    /\ responseCache = <<>>
    /\ requestCount \in InitialRequestCounts
    /\ startTime = 0 - 60 * 60 * 1000
    /\ now = 0
    /\ handlers = <<>>
    /\ inbound = <<>>
    /\ delivered = <<>>

\* No acknowledgement sent
AcknowledgementOmitted == <<>>

\* index.js:157: what the handler replies before it awaits askGemini
Acknowledgement == <<ThinkingReply>>

\* The length check made after the quota check
ExitQuotaBeforeLength(me, text) ==
    IF me THEN "self"
    ELSE IF IsCommand(text) THEN "command"
    ELSE IF OverQuota THEN "quota"
    ELSE IF TooLong(text) THEN "length"
    ELSE "conversation"

\* index.js:126-156: the return the handler of a message takes, the checks
\* in the order of the code
Exit(me, text) ==
    IF me THEN "self"
    ELSE IF IsCommand(text) THEN "command"
    ELSE IF TooLong(text) THEN "length"
    ELSE IF OverQuota THEN "quota"
    ELSE "conversation"

\* index.js:125-157: a 'message' event, up to the handler's first await
Receive(chatId, body, me) ==
    LET text == Trim(body)
        h    == NewHandler(chatId, body, me)
        exit == Exit(me, text)
    IN
    /\ inbound' = <<Message(chatId, body, me)>>
    /\ IF exit = "self"
          THEN /\ handlers' = Append(handlers, Finished)
               /\ delivered' = <<>>
               /\ UNCHANGED conversationHistory
       ELSE IF exit = "command"
          THEN /\ handlers' = Append(handlers, Finished)
               /\ delivered' = <<Delivery(chatId, CommandReply(text))>>
               /\ conversationHistory' =
                    IF text = ResetCommand
                       THEN ResetHistory(conversationHistory, chatId)
                       ELSE conversationHistory
       ELSE IF exit = "length"
          THEN /\ handlers' = Append(handlers, Finished)
               /\ delivered' = <<Delivery(chatId, TooLongReply)>>
               /\ UNCHANGED conversationHistory
       ELSE IF exit = "quota"
          THEN /\ handlers' = Append(handlers, Finished)
               /\ delivered' = <<Delivery(chatId, QuotaReply)>>
               /\ UNCHANGED conversationHistory
       ELSE /\ handlers' =
                 Append(handlers, [h EXCEPT !.replies = Acknowledgement,
                                            !.pc = "thinking"])
            /\ delivered' = [k \in DOMAIN Acknowledgement |->
                                Delivery(chatId, Acknowledgement[k])]
            /\ UNCHANGED conversationHistory
    /\ UNCHANGED <<responseCache, requestCount, startTime, now>>

\* The handler waits for the calls of its session that are in flight
ResumableSerialized(i) ==
    /\ handlers[i].pc = "thinking"
    /\ \A j \in DOMAIN handlers \ {i} :
          handlers[j].from = handlers[i].from =>
             handlers[j].pc \notin {"sendMessage", "reply"}

\* index.js:157-159: the acknowledgement is sent and nothing else is awaited
\* before askGemini is called
Resumable(i) == handlers[i].pc = "thinking"

\* index.js:159, 62-99: the handler resumes after the acknowledgement and
\* runs askGemini up to its return (cache hit) or its first await (the
\* backend call).  getGenerativeModel and startChat only build the request;
\* a failure of the backend shows when sendMessage is awaited.
AskGemini(i) ==
    LET h        == handlers[i]
        chatId   == h.from
        cacheKey == CacheKey(chatId, Text(h))
        cached   == Get(cacheKey)
        history  == AppendUser(HistoryOf(chatId), Text(h))
    IN
    /\ Resumable(i)
    /\ requestCount' = Counted(requestCount, Hit(cached))
    /\ IF Hit(cached)
          THEN /\ handlers' =
                    [handlers EXCEPT ![i].pc = "reply",
                                     ![i].cached = cached,
                                     ![i].aiResponse = (CHOOSE e \in cached : TRUE).response]
               /\ UNCHANGED conversationHistory
          ELSE /\ conversationHistory' = SetHistory(chatId, history)
               /\ handlers' =
                    [handlers EXCEPT ![i].pc = "sendMessage",
                                     ![i].cached = cached,
                                     ![i].calls = @ + 1]
    /\ inbound' = <<>>
    /\ delivered' = <<>>
    /\ UNCHANGED <<responseCache, startTime, now>>

\* index.js:99-113: the backend answers with text
BackendReturns(i, botMessage) ==
    LET h      == handlers[i]
        chatId == h.from
    IN
    /\ h.pc = "sendMessage"
    /\ conversationHistory' =
          SetHistory(chatId, AppendModel(HistoryOf(chatId), botMessage))
    /\ responseCache' = Store(responseCache, CacheKey(chatId, Text(h)), botMessage)
    /\ handlers' = [handlers EXCEPT ![i].pc = "reply",
                                    ![i].aiResponse = botMessage]
    /\ inbound' = <<>>
    /\ delivered' = <<>>
    /\ UNCHANGED <<requestCount, startTime, now>>

\* index.js:115-122: the backend call fails
BackendFails(i, status) ==
    /\ handlers[i].pc = "sendMessage"
    /\ handlers' = [handlers EXCEPT ![i].pc = "reply",
                                    ![i].errStatus = status,
                                    ![i].aiResponse = Fallback(status)]
    /\ inbound' = <<>>
    /\ delivered' = <<>>
    /\ UNCHANGED <<conversationHistory, responseCache, requestCount, startTime,
                   now>>

\* index.js:159-165: askGemini's promise is settled, the final reply is sent
Reply(i) ==
    /\ handlers[i].pc = "reply"
    /\ handlers' = [handlers EXCEPT ![i] = Finished]
    /\ inbound' = <<>>
    /\ delivered' =
          <<Delivery(handlers[i].from, TextReply(Truncate(handlers[i].aiResponse)))>>
    /\ UNCHANGED <<conversationHistory, responseCache, requestCount, startTime,
                   now>>

\* index.js:171-179: the cache sweep timer fires.  Its phase relative to the
\* observed instants is not fixed, so it may fire at any of them.
Sweep ==
    /\ responseCache' =
          [k \in {x \in DOMAIN responseCache : ~Expired(responseCache[x])} |->
              responseCache[k]]
    /\ inbound' = <<>>
    /\ delivered' = <<>>
    /\ UNCHANGED <<conversationHistory, requestCount, startTime, now, handlers>>

\* Time passes
Tick(t) ==
    /\ t > now
    /\ now' = t
    /\ inbound' = <<>>
    /\ delivered' = <<>>
    /\ UNCHANGED <<conversationHistory, responseCache, requestCount, startTime,
                   handlers>>

\* What the handlers, the backend, the timer and the clock do
Progress ==
    \/ \E i \in DOMAIN handlers : AskGemini(i)
    \/ \E i \in DOMAIN handlers, r \in Responses : BackendReturns(i, r)
    \/ \E i \in DOMAIN handlers, s \in FailureStatuses : BackendFails(i, s)
    \/ \E i \in DOMAIN handlers : Reply(i)
    \/ Sweep
    \/ \E t \in Instants : Tick(t)

Next ==
    \/ /\ Len(handlers) < MaxMessages
       /\ \E msg \in Inbound : Receive(msg.from, msg.body, msg.fromMe)
    \/ Progress

Spec == Init /\ [][Next]_vars

\* The event loop runs every continuation that is ready: a handler whose
\* acknowledgement is sent goes on to askGemini, a handler whose askGemini has
\* settled sends its final reply.  Nothing makes the backend answer.
LiveSpec ==
    /\ Spec
    /\ \A i \in 1..MaxMessages :
          /\ WF_vars(i \in DOMAIN handlers /\ AskGemini(i))
          /\ WF_vars(i \in DOMAIN handlers /\ Reply(i))

\* The same program when the traffic is a conversation of chat c1
NextConversation ==
    \/ /\ Len(handlers) < MaxConversation
       /\ \E msg \in Conversation : Receive(msg.from, msg.body, msg.fromMe)
    \/ Progress

SpecConversation == Init /\ [][NextConversation]_vars

-----------------------------------------------------------------------------
(* Vocabulary of the properties *)

CommandLiterals == {PingCommand, ResetCommand, HelpCommand, StatsCommand}

\* The step handles the 'message' event msg
Arrives(msg) == Len(handlers') = Len(handlers) + 1 /\ inbound' = <<msg>>

\* A message of the conversational path
Conversational(msg) ==
    /\ ~msg.fromMe
    /\ Trim(msg.body) \notin CommandLiterals
    /\ Length(Trim(msg.body)) <= 500

\* The cache key of a message: its chat and its lower-cased, trimmed text
NormalizedKey(chatId, body) == <<chatId, Trim(ToLowerCase(body))>>

\* An entry is stored under key and is younger than the TTL of five minutes
ValidEntry(key) ==
    /\ key \in DOMAIN responseCache
    /\ now - responseCache[key].timestamp < 300000

\* Handler i runs its cache lookup in the step
Looks(i) == handlers[i].pc = "thinking" /\ handlers'[i].pc # "thinking"

\* Handler i sends its final reply in the step
Answers(i) == handlers[i].pc = "reply" /\ handlers'[i].pc = "done"

\* Handler i starts a backend call in the step
Calls(i) ==
    /\ handlers'[i].pc = "sendMessage"
    /\ i \in DOMAIN handlers => handlers[i].pc # "sendMessage"

NoBackendCall == \A i \in DOMAIN handlers' : ~Calls(i)

NoStateChange ==
    UNCHANGED <<conversationHistory, responseCache, requestCount>>

\* The handler of the message that has just arrived has returned
Returned == handlers'[Len(handlers')] = Finished

\* A response text as the final reply carries it
Capped(r) ==
    IF Length(r) <= 4000 THEN r ELSE Concat(Substring(r, 4000), Ellipsis)

-----------------------------------------------------------------------------
(* C1: every session's history holds at most maxHistory (4) turns, in every *)
(* reachable state, also right after the model turn of a reply has been    *)
(* appended.                                                               *)
HistoryBounded ==
    \A c \in DOMAIN conversationHistory : Len(conversationHistory[c]) <= 4

(* C2: a lookup that finds a valid entry under (chat, lower-cased trimmed   *)
(* text) makes the handler answer with the stored response (length-capped  *)
(* as every final reply is); neither the lookup nor the answer starts a    *)
(* backend call or changes requestCount, a history or the cache.           *)
CacheHitIsFrameOnly ==
    [][\A i \in DOMAIN handlers :
         LET h   == handlers[i]
             key == NormalizedKey(h.from, h.body)
         IN
         /\ Looks(i) /\ ValidEntry(key) =>
               /\ handlers'[i].pc = "reply"
               /\ handlers'[i].calls = 0
               /\ handlers'[i].aiResponse = responseCache[key].response
               /\ NoStateChange
               /\ NoBackendCall
         /\ Answers(i) /\ h.calls = 0 =>
               /\ delivered' = <<Delivery(h.from, TextReply(Capped(h.aiResponse)))>>
               /\ NoStateChange
               /\ NoBackendCall]_vars

\* A handler answers from the cache a message whose text is not its cache
\* key's text, without any backend call of its own.
CacheHitWitness ==
    \E i \in DOMAIN handlers :
        /\ handlers[i].pc = "reply"
        /\ handlers[i].calls = 0
        /\ handlers[i].cached # {}
        /\ NormalizedKey(handlers[i].from, handlers[i].body)[2]
              # Trim(handlers[i].body)

(* C3: the lookup answers with the stored response if and only if an entry  *)
(* exists for the key and now - createdAt < TTL; an entry of age >= TTL    *)
(* still in the cache counts as absent, and the backend is called again.   *)
LookupIsLazyExpiring ==
    [][\A i \in DOMAIN handlers :
         LET h   == handlers[i]
             key == NormalizedKey(h.from, h.body)
         IN
         Looks(i) =>
            IF ValidEntry(key)
               THEN /\ handlers'[i].pc = "reply"
                    /\ handlers'[i].aiResponse = responseCache[key].response
                    /\ ~Calls(i)
               ELSE /\ Calls(i)
                    /\ requestCount' = requestCount + 1]_vars

\* A handler is calling the backend although its lookup found an entry: the
\* entry was stale.
StaleEntryWitness ==
    \E i \in DOMAIN handlers :
        /\ handlers[i].pc = "sendMessage"
        /\ \E e \in handlers[i].cached : e.timestamp + 300000 <= now

(* C4: a non-command message whose trimmed text is longer than 500          *)
(* characters gets the 'message too long' reply and nothing else happens:  *)
(* no history, cache or requestCount change, no backend call.  A message   *)
(* of exactly 500 characters is not rejected for its length.               *)
LengthRejection ==
    [][\A msg \in Inbound :
         Arrives(msg) /\ ~msg.fromMe /\ Trim(msg.body) \notin CommandLiterals =>
            /\ Length(Trim(msg.body)) > 500 =>
                  /\ delivered' = <<Delivery(msg.from, TooLongReply)>>
                  /\ Returned
                  /\ NoStateChange
                  /\ NoBackendCall
            /\ Length(Trim(msg.body)) = 500 =>
                  delivered' # <<Delivery(msg.from, TooLongReply)>>]_vars

\* An over-long message has just been rejected while a history and a cache
\* entry exist.
LengthRejectionWitness ==
    /\ inbound # <<>>
    /\ Length(Trim(inbound[1].body)) = 501
    /\ delivered = <<Delivery(inbound[1].from, TooLongReply)>>
    /\ DOMAIN responseCache # {}
    /\ HistoryOf(inbound[1].from) # <<>>

(* C5: once requestCount > 1000, every conversational message that arrives  *)
(* gets the quota reply, also when a valid cache entry exists for it, and  *)
(* nothing else happens: no history, cache or requestCount change, no      *)
(* backend call.                                                           *)
QuotaRejection ==
    [][\A msg \in Inbound :
         Arrives(msg) /\ Conversational(msg) /\ requestCount > 1000 =>
            /\ delivered' = <<Delivery(msg.from, QuotaReply)>>
            /\ Returned
            /\ NoStateChange
            /\ NoBackendCall]_vars

\* A message for which a valid cache entry exists has just been rejected for
\* the quota.
QuotaRejectionWitness ==
    /\ inbound # <<>>
    /\ Conversational(inbound[1])
    /\ delivered = <<Delivery(inbound[1].from, QuotaReply)>>
    /\ ValidEntry(NormalizedKey(inbound[1].from, inbound[1].body))

(* C6: every step adds to requestCount the number of backend calls it       *)
(* starts, one or none: the counter never decreases, and commands, self    *)
(* messages, rejections and cache hits leave it alone.                     *)
RequestCountCountsCalls ==
    [][requestCount' =
          requestCount + Cardinality({i \in DOMAIN handlers' : Calls(i)})]_vars

\* One backend call has been made and counted, and a later message is being
\* answered from the cache.
CountedOnceWitness ==
    /\ requestCount = 1
    /\ \E i \in DOMAIN handlers :
          handlers[i].pc = "reply" /\ handlers[i].calls = 0

(* C7: a command is answered with its own reply, whatever requestCount is,  *)
(* and its handling leaves the cache and requestCount unchanged and starts *)
(* no backend call; !ping, !help and !stats also leave every history       *)
(* unchanged, and !stats reports the current requestCount.                 *)
CommandsTouchNothing ==
    [][\A msg \in Inbound :
         LET text == Trim(msg.body) IN
         Arrives(msg) /\ ~msg.fromMe /\ text \in CommandLiterals =>
            /\ Returned
            /\ UNCHANGED <<responseCache, requestCount>>
            /\ NoBackendCall
            /\ Len(delivered') = 1
            /\ delivered'[1].to = msg.from
            /\ delivered'[1].reply.kind =
                  CASE text = PingCommand  -> "pong"
                    [] text = ResetCommand -> "reset"
                    [] text = HelpCommand  -> "help"
                    [] text = StatsCommand -> "stats"
            /\ text # ResetCommand => UNCHANGED conversationHistory
            /\ text = StatsCommand =>
                  delivered'[1].reply.requests = requestCount]_vars

\* !stats has just been answered with a count above the quota.
StatsOverQuotaWitness ==
    /\ inbound # <<>>
    /\ Trim(inbound[1].body) = StatsCommand
    /\ requestCount > 1000
    /\ Len(delivered) = 1
    /\ delivered[1].reply.kind = "stats"
    /\ delivered[1].reply.requests = requestCount

(* C8: handling !reset leaves the sender's history empty, whether or not    *)
(* the session existed, and every other session's history as it was.       *)
ResetClearsOneSession ==
    [][\A msg \in Inbound :
         Arrives(msg) /\ ~msg.fromMe /\ Trim(msg.body) = ResetCommand =>
            /\ DOMAIN conversationHistory' =
                  DOMAIN conversationHistory \cup {msg.from}
            /\ conversationHistory'[msg.from] = <<>>
            /\ \A c \in DOMAIN conversationHistory \ {msg.from} :
                  conversationHistory'[c] = conversationHistory[c]]_vars

\* A !reset has just emptied one session while another one holds turns.
ResetWitness ==
    /\ inbound # <<>>
    /\ ~inbound[1].fromMe
    /\ Trim(inbound[1].body) = ResetCommand
    /\ conversationHistory[inbound[1].from] = <<>>
    /\ \E c \in DOMAIN conversationHistory : conversationHistory[c] # <<>>

(* C9: the final reply carries the response text unchanged when it has at   *)
(* most 4000 characters, and its first 4000 characters followed by the     *)
(* ellipsis when it is longer.                                             *)
FinalReplyIsCapped ==
    [][\A i \in DOMAIN handlers :
         Answers(i) =>
            LET r == handlers[i].aiResponse IN
            /\ Len(delivered') = 1
            /\ delivered'[1].reply.kind = "text"
            /\ Length(r) <= 4000 => delivered'[1].reply.text = r
            /\ Length(r) > 4000 =>
                  /\ Length(delivered'[1].reply.text) = 4003
                  /\ Substring(delivered'[1].reply.text, 4000) = Substring(r, 4000)
                  /\ delivered'[1].reply.text =
                        Concat(Substring(r, 4000), <<Run(".", 3)>>)]_vars

\* A reply of 4000 characters and the ellipsis has just been sent.
TruncatedReplyWitness ==
    /\ Len(delivered) = 1
    /\ delivered[1].reply.kind = "text"
    /\ Length(delivered[1].reply.text) = 4003

(* C10: a failed backend call makes askGemini return the 'too many          *)
(* requests' text when the failure's status is 429 and the 'temporary      *)
(* error' text otherwise; the handler sends that text as its final reply,  *)
(* and no handler calls the backend a second time.                         *)
FailuresBecomeReplies ==
    [][\A i \in DOMAIN handlers :
         LET h == handlers[i] IN
         /\ h.pc = "sendMessage" /\ handlers'[i].pc # "sendMessage" =>
               /\ handlers'[i].pc = "reply"
               /\ handlers'[i].errStatus = 429 =>
                     handlers'[i].aiResponse = TooManyRequestsText
               /\ handlers'[i].errStatus \notin {0, 429} =>
                     handlers'[i].aiResponse = TemporaryErrorText
         /\ Answers(i) /\ h.errStatus # 0 =>
               delivered' =
                  <<Delivery(h.from,
                             TextReply(IF h.errStatus = 429
                                          THEN TooManyRequestsText
                                          ELSE TemporaryErrorText))>>
         /\ Calls(i) => h.calls = 0]_vars

\* The 'too many requests' text has just been sent as a final reply.
RateLimitedReplyWitness ==
    \E c \in Chats : delivered = <<Delivery(c, TextReply(TooManyRequestsText))>>

(* Vocabulary of the sweep.  Line 175 of index.js is the only place that   *)
(* deletes from the cache, so a step that takes a key out of it is a run  *)
(* of the sweep; a sweep that deletes nothing changes nothing.            *)

Age(entry) == now - entry.timestamp

Swept == {k \in DOMAIN responseCache : k \notin DOMAIN responseCache'}

(* C11: right after a sweep the cache holds no entry of age >= TTL, that    *)
(* is, no entry the lookup treats as expired.                              *)
SweepLeavesNoExpiredEntry ==
    [][Swept # {} =>
         \A k \in DOMAIN responseCache' :
            now' - responseCache'[k].timestamp < 300000]_vars

(* C12: a sweep deletes only entries of age >= TTL; it keeps every entry    *)
(* younger than the TTL as it is, adds no entry, and changes no history,   *)
(* no handler and not requestCount.                                        *)
SweepOnlyDeletesExpired ==
    [][Swept # {} =>
         /\ \A k \in Swept : Age(responseCache[k]) >= 300000
         /\ \A k \in DOMAIN responseCache :
               Age(responseCache[k]) < 300000 =>
                  /\ k \in DOMAIN responseCache'
                  /\ responseCache'[k] = responseCache[k]
         /\ DOMAIN responseCache' \subseteq DOMAIN responseCache
         /\ UNCHANGED <<conversationHistory, requestCount, handlers, now>>]_vars

\* The entry of chat c1, whose answer is in its history, has been deleted
\* while chat c2's entry, younger than the TTL, is still stored.
SweepWitness ==
    /\ \E k \in 1..Len(HistoryOf("c1")) : HistoryOf("c1")[k].role = "model"
    /\ \A key \in DOMAIN responseCache : key[1] # "c1"
    /\ \E key \in DOMAIN responseCache :
          key[1] = "c2" /\ Age(responseCache[key]) < 300000

\* Handler i's backend call ends in the step: askGemini returns
Settles(i) == handlers[i].pc = "sendMessage" /\ handlers'[i].pc = "reply"

LastTurn(h) == h[Len(h)]

(* C13, as claimed: when askGemini returns the text of a backend call, be   *)
(* it the backend's text or a fallback text, the session's history ends    *)
(* with a model turn carrying that text and the cache holds the text under *)
(* the message's key.                                                      *)
EveryReturnedTextIsRecorded ==
    [][\A i \in DOMAIN handlers :
         Settles(i) =>
            LET chatId == handlers[i].from
                key    == NormalizedKey(chatId, handlers[i].body)
                text   == handlers'[i].aiResponse
            IN
            /\ HistoryOf(chatId)' # <<>>
            /\ LastTurn(HistoryOf(chatId)') = Turn("model", text)
            /\ key \in DOMAIN responseCache'
            /\ responseCache'[key].response = text]_vars

(* C13, amended: a backend call starts with the user turn appended; when    *)
(* it returns text, a model turn carrying the text is appended to the      *)
(* session's history and the text is stored under the message's key, all   *)
(* before the final reply; when it fails, the fallback text is returned    *)
(* with no history and no cache change.                                    *)
BackendTextIsRecorded ==
    [][\A i \in DOMAIN handlers :
         LET chatId == handlers[i].from
             key    == NormalizedKey(chatId, handlers[i].body)
             text   == handlers'[i].aiResponse
         IN
         /\ Calls(i) =>
               LastTurn(HistoryOf(chatId)') = Turn("user", Trim(handlers[i].body))
         /\ Settles(i) /\ handlers'[i].errStatus = 0 =>
               /\ HistoryOf(chatId)' =
                     Append(HistoryOf(chatId), Turn("model", text))
               /\ DOMAIN responseCache' = DOMAIN responseCache \cup {key}
               /\ responseCache'[key] = [response |-> text, timestamp |-> now]
               /\ \A k \in DOMAIN responseCache \ {key} :
                     responseCache'[k] = responseCache[k]
         /\ Settles(i) /\ handlers'[i].errStatus # 0 =>
               /\ text \in {TooManyRequestsText, TemporaryErrorText}
               /\ UNCHANGED <<conversationHistory, responseCache>>
         /\ Answers(i) => UNCHANGED <<conversationHistory, responseCache>>]_vars

\* askGemini has returned the backend's text, which is the last turn of the
\* history and the cached response, and the final reply is still to be sent.
RecordedWitness ==
    \E i \in DOMAIN handlers :
        LET h   == handlers[i]
            key == NormalizedKey(h.from, h.body)
        IN
        /\ h.pc = "reply"
        /\ h.calls = 1
        /\ h.errStatus = 0
        /\ HistoryOf(h.from) # <<>>
        /\ LastTurn(HistoryOf(h.from)) = Turn("model", h.aiResponse)
        /\ key \in DOMAIN responseCache
        /\ responseCache[key].response = h.aiResponse

(* C14: a message leaves its handler at the first exit that applies, in    *)
(* the order self message, command, length check, quota check, cache hit,  *)
(* backend call: a self message gets no reply and changes nothing, even    *)
(* when its text is a command; a command is answered also when             *)
(* requestCount > 1000; an over-long message gets the length rejection     *)
(* also when requestCount > 1000; an over-quota message gets the quota     *)
(* rejection without any lookup, also when a valid entry is cached for it; *)
(* and a lookup that finds a valid entry starts no backend call.           *)
ExitOrder ==
    [][/\ \A msg \in Inbound :
            Arrives(msg) =>
               LET text == Trim(msg.body) IN
               IF msg.fromMe
                  THEN /\ delivered' = <<>>
                       /\ Returned
                       /\ NoStateChange
               ELSE IF text \in CommandLiterals
                  THEN /\ delivered' = <<Delivery(msg.from, CommandReply(text))>>
                       /\ Returned
               ELSE IF Length(text) > 500
                  THEN /\ delivered' = <<Delivery(msg.from, TooLongReply)>>
                       /\ Returned
               ELSE IF requestCount > 1000
                  THEN /\ delivered' = <<Delivery(msg.from, QuotaReply)>>
                       /\ Returned
               ELSE /\ handlers'[Len(handlers')].pc = "thinking"
                    /\ handlers'[Len(handlers')].cached = {}
                    /\ NoStateChange
                    /\ NoBackendCall
      /\ \A i \in DOMAIN handlers :
            Looks(i) =>
               LET key == NormalizedKey(handlers[i].from, handlers[i].body) IN
               IF ValidEntry(key)
                  THEN handlers'[i].pc = "reply" /\ ~Calls(i)
                  ELSE Calls(i)]_vars

\* A message that is both over-long and over quota has just got the length
\* rejection.
ExitOrderWitness ==
    /\ inbound # <<>>
    /\ ~inbound[1].fromMe
    /\ Length(Trim(inbound[1].body)) > 500
    /\ requestCount > 1000
    /\ delivered = <<Delivery(inbound[1].from, TooLongReply)>>

\* The acknowledgement is among the replies handler h has sent
Acknowledged(h) == \E k \in DOMAIN h.replies : h.replies[k] = ThinkingReply

(* C15, as claimed: the 'thinking' acknowledgement is sent exactly for the  *)
(* messages that take the cache-miss path: a message that leaves at the    *)
(* self, command, length or quota exit is not acknowledged, a handler      *)
(* whose lookup finds a valid entry has sent no acknowledgement, and a     *)
(* handler that starts a backend call has sent it.                         *)
AcknowledgedOnlyOnCacheMiss ==
    [][/\ \A msg \in Inbound :
            Arrives(msg) /\ Returned =>
               \A k \in DOMAIN delivered' : delivered'[k].reply # ThinkingReply
      /\ \A i \in DOMAIN handlers :
            LET key == NormalizedKey(handlers[i].from, handlers[i].body) IN
            /\ Looks(i) /\ ValidEntry(key) => ~Acknowledged(handlers'[i])
            /\ Calls(i) => Acknowledged(handlers[i])]_vars

(* C15, amended: the 'thinking' acknowledgement is sent exactly for the     *)
(* messages that pass the self, command, length and quota exits, in the    *)
(* step of their arrival and so before the cache lookup and before any     *)
(* backend call: a handler has sent it, once, when it looks its message up *)
(* in the cache, whether the lookup hits or misses, and the final reply    *)
(* follows it.                                                             *)
AcknowledgedBeforeLookup ==
    [][/\ \A msg \in Inbound :
            Arrives(msg) =>
               IF Conversational(msg) /\ requestCount <= 1000
                  THEN /\ delivered' = <<Delivery(msg.from, ThinkingReply)>>
                       /\ handlers'[Len(handlers')].pc = "thinking"
                       /\ handlers'[Len(handlers')].cached = {}
                       /\ NoBackendCall
                  ELSE /\ Returned
                       /\ \A k \in DOMAIN delivered' :
                             delivered'[k].reply # ThinkingReply
      /\ \A i \in DOMAIN handlers :
            /\ Looks(i) =>
                  /\ handlers[i].replies = <<ThinkingReply>>
                  /\ delivered' = <<>>
            /\ Answers(i) =>
                  /\ handlers[i].replies = <<ThinkingReply>>
                  /\ Len(delivered') = 1
                  /\ delivered'[1].reply # ThinkingReply]_vars

\* A handler that has sent the acknowledgement has found its answer in the
\* cache and is about to send it.
AcknowledgedCacheHitWitness ==
    \E i \in DOMAIN handlers :
        /\ handlers[i].pc = "reply"
        /\ handlers[i].calls = 0
        /\ handlers[i].cached # {}
        /\ handlers[i].replies = <<ThinkingReply>>

\* The last n turns of a history
LastTurns(h, n) == IF Len(h) <= n THEN h ELSE SubSeq(h, Len(h) - n + 1, Len(h))

(* C16: when a handler starts its backend call, the history handed to the   *)
(* backend holds at most 4 turns and ends with the user turn of the        *)
(* handler's message; it is the session's history with that turn appended, *)
(* cut to its last 4 turns; and append, trim, requestCount increment and   *)
(* call are one step of the handler, in which no other handler moves, also *)
(* while other calls of the session are in flight.                         *)
WindowAtInvocation ==
    [][\A i \in DOMAIN handlers :
         Calls(i) =>
            LET chatId == handlers[i].from
                user   == Turn("user", Trim(handlers[i].body))
                window == HistoryOf(chatId)'
            IN
            /\ handlers[i].pc = "thinking"
            /\ Len(window) <= 4
            /\ LastTurn(window) = user
            /\ window = LastTurns(Append(HistoryOf(chatId), user), 4)
            /\ requestCount' = requestCount + 1
            /\ \A j \in DOMAIN handlers \ {i} : handlers'[j] = handlers[j]]_vars

\* A call has started with a window that lost the session's oldest turn to
\* the trim: two model turns follow the one user turn that is left of two.
TrimmedWindowWitness ==
    /\ Len(HistoryOf("c1")) = 4
    /\ HistoryOf("c1")[1].role = "user"
    /\ HistoryOf("c1")[2].role = "model"
    /\ HistoryOf("c1")[3].role = "model"
    /\ HistoryOf("c1")[4].role = "user"
    /\ \E i \in DOMAIN handlers : handlers[i].pc = "sendMessage"

\* The roles of the turns of a history
Roles(h) == [k \in DOMAIN h |-> h[k].role]

(* C17: handling is not serialized per session: a handler that has sent its *)
(* acknowledgement can always go on to its lookup and its backend call,    *)
(* also while the backend call of another message of its session is        *)
(* suspended, and the call it then starts appends its user turn to the     *)
(* history the suspended call has appended to.                             *)
NotSerializedPerSession ==
    \A i, j \in DOMAIN handlers :
       /\ i # j
       /\ handlers[i].from = handlers[j].from
       /\ handlers[i].pc = "sendMessage"
       /\ handlers[j].pc = "thinking"
       => ENABLED (/\ AskGemini(j)
                   /\ handlers'[i] = handlers[i]
                   /\ handlers'[j].pc = "sendMessage" =>
                         HistoryOf(handlers[j].from)' =
                            LastTurns(Append(HistoryOf(handlers[j].from),
                                             Turn("user", Text(handlers[j]))), 4))

\* The history of a session holds the user turns of two messages before the
\* model turn of either.
InterleavedTurnsWitness ==
    /\ Roles(HistoryOf("c1")) = <<"user", "user", "model", "model">>
    /\ HistoryOf("c1")[1].text # HistoryOf("c1")[2].text

\* The backend call of the i-th message is in flight
InFlight(i) == i \in DOMAIN handlers /\ handlers[i].pc = "sendMessage"

\* The handler of the i-th message has returned
Done(i) == i \in DOMAIN handlers /\ handlers[i].pc = "done"

(* C18: every message that arrives has its handler return, unless its own   *)
(* backend call stays in flight for ever, whatever becomes of the calls of *)
(* other messages; a handler that has returned stays so; and a message not *)
(* sent by the bot gets exactly one final reply, in the step in which its  *)
(* handler returns: no other step sends anything but the acknowledgement.  *)
EveryMessageIsAnswered ==
    /\ \A i \in 1..MaxMessages :
          \/ <>[]InFlight(i)
          \/ (i \in DOMAIN handlers) ~> Done(i)
    /\ [][/\ \A i \in DOMAIN handlers :
               /\ handlers[i].pc = "done" => handlers'[i] = handlers[i]
               /\ Answers(i) =>
                     delivered' =
                        <<Delivery(handlers[i].from,
                                   TextReply(Capped(handlers[i].aiResponse)))>>
          /\ \A msg \in Inbound :
               Arrives(msg) =>
                  IF Returned
                     THEN IF msg.fromMe
                             THEN delivered' = <<>>
                             ELSE /\ Len(delivered') = 1
                                  /\ delivered'[1].to = msg.from
                                  /\ delivered'[1].reply # ThinkingReply
                     ELSE delivered' = <<Delivery(msg.from, ThinkingReply)>>
          /\ (\A i \in DOMAIN handlers : ~Answers(i))
                /\ Len(handlers') = Len(handlers)
             => delivered' = <<>>]_vars

\* A message of chat c1 has just got its final reply while the backend call
\* of another message of the chat is in flight.
AnsweredBesideHungCallWitness ==
    /\ Len(delivered) = 1
    /\ delivered[1].to = "c1"
    /\ delivered[1].reply \notin {ThinkingReply, PongReply, ResetReply, HelpReply,
                                  TooLongReply, QuotaReply}
    /\ inbound = <<>>
    /\ \E i \in DOMAIN handlers :
          handlers[i].from = "c1" /\ handlers[i].pc = "sendMessage"

(* C19: in every reachable state requestCount is at most 1001: once it has  *)
(* passed the quota of 1000 no handler starts a backend call, also not a   *)
(* handler that passed the quota check before and was suspended at its     *)
(* acknowledgement.                                                        *)
RequestCountStopsPastQuota == requestCount <= 1001

(* C20: once !reset has emptied a session's history, the first turn         *)
(* appended to it is a user turn, also when a backend call of an earlier   *)
(* message of the session was in flight at the reset.                      *)
FirstTurnAfterResetIsUserTurn ==
    [][\A c \in DOMAIN conversationHistory :
         conversationHistory[c] = <<>> /\ HistoryOf(c)' # <<>> =>
            HistoryOf(c)'[1].role = "user"]_vars

====
